---- MODULE Spec2Model ----
(***************************************************************************)
(* Model of controllers/main.py: VariantInfoController.                    *)
(*                                                                         *)
(*   get_variant_info    /shop/variant/info       read-only variant lookup *)
(*   calculate_shipping  /shop/shipping/calculate shipping estimate        *)
(*                                                                         *)
(* Strings that the code transforms (the postal code) are sequences of     *)
(* one-character strings, so that strip() and upper() are computed.        *)
(* Python dicts are records whose DOMAIN is the set of keys present.       *)
(* Database tables are functions from row id to row.                       *)
(***************************************************************************)
EXTENDS Integers, Sequences, FiniteSets, TLC

VARIABLES
    pc,               \* position of the request being served
    zip_in,           \* calculate_shipping argument zip_code, as received
    product_id,       \* argument product_id (a Python value, see PyValue)
    quantity,         \* argument quantity
    zip_code,         \* local zip_code after line 152
    partners,         \* table res.partner
    orders,           \* table sale.order (with its lines)
    cart,             \* id of the visitor's cart (website.sale_get_order()), 0 if none
    is_public,        \* request.env.user._is_public()
    published,        \* ids of the website's carriers with website_published
    products,         \* table product.product
    searched,         \* the delivery.carrier search of line 209 ran in this call
    rated,            \* the rate_shipment calls of this call, in order
    shipping_options, \* the entries collected by the loop, before the sort
    order,            \* local order of _get_shipping_rates, 0 if None
    idx,              \* position of the loop of line 230 in carriers
    result,           \* what the last call returned
    calls             \* number of calculate_shipping calls served or in progress

vars == <<pc, zip_in, product_id, quantity, zip_code, partners, orders, cart,
          is_public, published, products, searched, rated, shipping_options,
          order, idx, result, calls>>

-----------------------------------------------------------------------------
(* Bounds of the model *)

MaxZipLen == 5
MaxCalls == 1
MaxLinks == 3

-----------------------------------------------------------------------------
(* Python values and strings *)

Chars == {" ", "a"}

RECURSIVE StringsUpTo(_)
StringsUpTo(n) ==
    IF n = 0 THEN {<<>>}
    ELSE LET S == StringsUpTo(n - 1)
         IN  S \cup {Append(s, c) : s \in {t \in S : Len(t) = n - 1}, c \in Chars}

IsSpace(c) == c = " "

RECURSIVE lstrip(_)
lstrip(s) ==
    IF s = <<>> THEN s
    ELSE IF IsSpace(Head(s)) THEN lstrip(Tail(s)) ELSE s

RECURSIVE rstrip(_)
rstrip(s) ==
    IF s = <<>> THEN s
    ELSE IF IsSpace(s[Len(s)]) THEN rstrip(SubSeq(s, 1, Len(s) - 1)) ELSE s

\* str.strip()
strip(s) == rstrip(lstrip(s))

UpperChar(c) == IF c = "a" THEN "A" ELSE c

\* str.upper()
upper(s) == [i \in 1..Len(s) |-> UpperChar(s[i])]

\* A request argument as JSON delivers it: None, an int, or a string that is
\* the decimal text of n (n >= 0) or not a number at all (n = -1).
PyNone == [t |-> "None", n |-> 0]
PyInt(k) == [t |-> "int", n |-> k]
PyStr(k) == [t |-> "str", n |-> k]
NotANumber == PyStr(-1)

\* bool(v)
Truthy(v) ==
    \/ v.t = "int" /\ v.n # 0
    \/ v.t = "str"

\* int(v) raises ValueError / TypeError
IntRaises(v) == v.t = "None" \/ (v.t = "str" /\ v.n < 0)

\* int(v)
IntOf(v) == v.n

\* A value that is a str or is not one (None, or the False of an unset field)
Str(x) == [isstr |-> TRUE, s |-> x]
NoStr == [isstr |-> FALSE, s |-> ""]

\* v or ''
OrEmpty(v) == IF v.isstr /\ v.s # "" THEN v ELSE Str("")

-----------------------------------------------------------------------------
(* Generic helpers *)

\* dict.get(k, default)
Get(d, k, default) == IF k \in DOMAIN d THEN d[k] ELSE default

Max(S) == CHOOSE m \in S : \A x \in S : x <= m
Min(S) == CHOOSE m \in S : \A x \in S : m <= x

\* id given to the next row created in a table
NextId(table) == IF DOMAIN table = {} THEN 1 ELSE Max(DOMAIN table) + 1

\* the elements of a finite set of ids in ascending order
RECURSIVE Ascending(_)
Ascending(S) == IF S = {} THEN <<>> ELSE <<Min(S)>> \o Ascending(S \ {Min(S)})

\* a sort that leaves the list in the order of collection
InsertByPrice_Append(x, s) == Append(s, x)

\* position at which list.sort(key=price) places x among the already sorted s:
\* after every element whose price is <= x.price (the sort is stable)
InsertByPrice(x, s) ==
    LET later == {i \in 1..Len(s) : s[i].price > x.price}
        k == IF later = {} THEN Len(s) + 1 ELSE Min(later)
    IN  SubSeq(s, 1, k - 1) \o <<x>> \o SubSeq(s, k, Len(s))

\* options.sort(key=lambda x: x['price'])
RECURSIVE SortByPrice(_)
SortByPrice(s) ==
    IF s = <<>> THEN <<>>
    ELSE InsertByPrice(s[Len(s)], SortByPrice(SubSeq(s, 1, Len(s) - 1)))

-----------------------------------------------------------------------------
(* The database and the website the requests run against *)

TempPartnerName == "Calculo de envio temporal"
ValidationError == "Ingrese un codigo postal valido (minimo 4 caracteres)"
NoMethodsError == "No hay metodos de envio disponibles para este codigo postal"
GenericError == "Error al calcular el envio. Intente nuevamente."

\* website.company_id.id, website.currency_id
WebsiteCompany == 1
Currency == [symbol |-> "$", name |-> "ARS"]

\* delivery.carrier rows; company_id 0 is False (shared by all companies)
Carriers ==
    (1 :> [name |-> "Retiro", company_id |-> 0, fixed_price |-> 20]) @@
    (2 :> [name |-> "Correo", company_id |-> WebsiteCompany, fixed_price |-> 10]) @@
    (3 :> [name |-> "Otro", company_id |-> 2, fixed_price |-> 5])

\* res.partner rows before the first request: the session user's own partner
\* and an active partner that happens to carry the temporary name
UserPartner == 1
InitPartners ==
    (1 :> [name |-> "Cliente", zip |-> <<"A", "A", "A", "A", "A">>, active |-> TRUE]) @@
    (2 :> [name |-> TempPartnerName, zip |-> <<"A", "A", "A", "A">>, active |-> TRUE])

\* the visitor's cart, when there is one
CartId == 1
CartOrder ==
    [partner_id |-> UserPartner, partner_shipping_id |-> UserPartner,
     lines |-> <<[product_id |-> 1, product_uom_qty |-> 1, price_unit |-> 100]>>]

InitOrders(c) == IF c = 0 THEN <<>> ELSE (CartId :> CartOrder)

\* product.product rows: one variant, without attribute values
InitProducts ==
    (1 :> [default_code |-> Str("SKU-1"), lst_price |-> 100,
           product_template_attribute_value_ids |-> <<>>])

\* what carrier.rate_shipment(order) can do: raise, or return a dict
RateOutcomes ==
    {[raised |-> TRUE, rate |-> [success |-> FALSE]]}
    \cup {[raised |-> FALSE, rate |-> [success |-> TRUE, price |-> p]] : p \in {1, 2}}
    \cup {[raised |-> FALSE, rate |-> [success |-> FALSE, price |-> 0]]}

ProductIdInputs == {PyNone, PyInt(1), PyInt(2), PyStr(1), NotANumber}
QuantityInputs == {1, 2}
ZipInputs == StringsUpTo(MaxZipLen)

Pending == [pending |-> TRUE]

-----------------------------------------------------------------------------
(* calculate_shipping and its helpers *)

\* request.env['delivery.carrier'].sudo().search([...]) of line 209, in id order
SearchCarriers ==
    Ascending({c \in DOMAIN Carriers :
                  /\ c \in published
                  /\ Carriers[c].company_id \in {0, WebsiteCompany}})

\* res.partner search of line 267: the ORM adds active = True to a domain
\* that does not mention the field
SearchTempPartner(zip) ==
    {p \in DOMAIN partners :
        /\ partners[p].active
        /\ partners[p].name = TempPartnerName
        /\ partners[p].zip = zip}

\* _get_or_create_temp_partner: the partner table afterwards and the id returned
GetOrCreateTempPartner(zip) ==
    IF is_public
    THEN IF SearchTempPartner(zip) # {}
         THEN [partners |-> partners, id |-> Min(SearchTempPartner(zip))]
         ELSE [partners |-> partners @@
                   (NextId(partners) :>
                       [name |-> TempPartnerName, zip |-> zip, active |-> FALSE]),
               id |-> NextId(partners)]
    ELSE [partners |-> partners, id |-> UserPartner]

\* an order line that always carries quantity 1
NewOrder_UnitQuantity(partner, pid, qty) ==
    [partner_id |-> partner, partner_shipping_id |-> partner,
     lines |-> <<[product_id |-> IntOf(pid),
                  product_uom_qty |-> 1,
                  price_unit |-> products[IntOf(pid)].lst_price]>>]

\* lines 324-338: the sale.order row created, with its single line
NewOrder(partner, pid, qty) ==
    [partner_id |-> partner, partner_shipping_id |-> partner,
     lines |-> <<[product_id |-> IntOf(pid),
                  product_uom_qty |-> qty,
                  price_unit |-> products[IntOf(pid)].lst_price]>>]

\* _get_order_for_calculation: the order table afterwards, the id returned
\* (0 for None) and whether int(product_id) raised
GetOrderForCalculation(partner, pid, qty) ==
    IF cart # 0
    THEN [raised |-> FALSE, order |-> cart,
          orders |-> [orders EXCEPT ![cart].partner_shipping_id = partner]]
    ELSE IF ~Truthy(pid)
    THEN [raised |-> FALSE, order |-> 0, orders |-> orders]
    ELSE IF IntRaises(pid)
    THEN [raised |-> TRUE, order |-> 0, orders |-> orders]
    ELSE IF IntOf(pid) \notin DOMAIN products
    THEN [raised |-> FALSE, order |-> 0, orders |-> orders]
    ELSE [raised |-> FALSE, order |-> NextId(orders),
          orders |-> orders @@ (NextId(orders) :> NewOrder(partner, pid, qty))]

\* the unsorted list built by the loop of _get_base_carrier_prices
BaseOptions(carriers) ==
    [i \in 1..Len(carriers) |->
        [carrier_id |-> carriers[i],
         carrier_name |-> Carriers[carriers[i]].name,
         price |-> Carriers[carriers[i]].fixed_price,
         currency |-> Currency.symbol,
         currency_name |-> Currency.name,
         delivery_time |-> "",
         is_estimate |-> TRUE]]

\* _get_base_carrier_prices
GetBaseCarrierPrices(carriers) == SortByPrice(BaseOptions(carriers))

\* the entry appended at line 236 for a successful rate
RatedOption(carrier, rate) ==
    [carrier_id |-> carrier,
     carrier_name |-> Carriers[carrier].name,
     price |-> Get(rate, "price", 0),
     currency |-> Currency.symbol,
     currency_name |-> Currency.name,
     delivery_time |-> ""]

\* a loop that keeps every rate that did not raise
AppendIfSuccess_AnyRate(options, carrier, out) ==
    IF out.raised
    THEN options
    ELSE Append(options, RatedOption(carrier, out.rate))

\* lines 233-247: shipping_options after the call for one carrier
AppendIfSuccess(options, carrier, out) ==
    IF out.raised
    THEN options
    ELSE IF Get(out.rate, "success", FALSE)
    THEN Append(options, RatedOption(carrier, out.rate))
    ELSE options

\* a result that reports success for an empty list too
Respond_AlwaysSuccess(options) ==
    [success |-> TRUE, zip_code |-> zip_code, shipping_options |-> options]

\* lines 158-169: the result of calculate_shipping for a list of options
Respond(options) ==
    IF options = <<>>
    THEN [success |-> FALSE, zip_code |-> zip_code, error_message |-> NoMethodsError]
    ELSE [success |-> TRUE, zip_code |-> zip_code, shipping_options |-> options]

\* lines 171-182
RespondError ==
    [success |-> FALSE, zip_code |-> zip_code, error_message |-> GenericError]

\* a validation that measures the unstripped input
ZipInvalid_Unstripped(z) == z = <<>> \/ Len(z) < 4

\* line 146
ZipInvalid(z) == z = <<>> \/ Len(strip(z)) < 4

\* line 152
NormalizeZip(z) == upper(strip(z))

\* calculate_shipping, lines 145-152: validation and normalisation
CalculateShipping ==
    /\ pc = "idle"
    /\ calls < MaxCalls
    /\ \E z \in ZipInputs, pid \in ProductIdInputs, q \in QuantityInputs :
        /\ zip_in' = z
        /\ product_id' = pid
        /\ quantity' = q
        /\ IF ZipInvalid(z)
           THEN /\ zip_code' = z
                /\ result' = [success |-> FALSE, error_message |-> ValidationError]
                /\ pc' = "done"
           ELSE /\ zip_code' = NormalizeZip(z)
                /\ result' = Pending
                /\ pc' = "rates"
    /\ calls' = calls + 1
    /\ UNCHANGED <<partners, orders, cart, is_public, published, products,
                   searched, rated, shipping_options, order, idx>>

\* _get_shipping_rates, lines 204-226, inside the try of line 154
GetShippingRates ==
    /\ pc = "rates"
    /\ searched' = TRUE
    /\ LET carriers == SearchCarriers
           tp == GetOrCreateTempPartner(zip_code)
           oc == GetOrderForCalculation(tp.id, product_id, quantity)
       IN  IF carriers = <<>>
           THEN /\ result' = Respond(<<>>)
                /\ pc' = "done"
                /\ UNCHANGED <<partners, orders, order, idx, shipping_options>>
           ELSE /\ partners' = tp.partners
                /\ orders' = oc.orders
                /\ order' = oc.order
                /\ IF oc.raised
                   THEN /\ result' = RespondError
                        /\ pc' = "done"
                        /\ UNCHANGED <<idx, shipping_options>>
                   ELSE IF oc.order = 0
                   THEN /\ shipping_options' = BaseOptions(carriers)
                        /\ result' = Respond(GetBaseCarrierPrices(carriers))
                        /\ pc' = "done"
                        /\ UNCHANGED idx
                   ELSE /\ idx' = 1
                        /\ pc' = "rating"
                        /\ UNCHANGED <<result, shipping_options>>
    /\ UNCHANGED <<zip_in, product_id, quantity, zip_code, cart, is_public,
                   published, products, rated, calls>>

\* one iteration of the loop of lines 230-247
RateCarrier ==
    /\ pc = "rating"
    /\ idx <= Len(SearchCarriers)
    /\ \E out \in RateOutcomes :
        LET carrier == SearchCarriers[idx]
        IN  /\ rated' = Append(rated,
                   [carrier |-> carrier, order |-> order,
                    zip |-> partners[orders[order].partner_shipping_id].zip,
                    out |-> out])
            /\ shipping_options' = AppendIfSuccess(shipping_options, carrier, out)
    /\ idx' = idx + 1
    /\ UNCHANGED <<pc, zip_in, product_id, quantity, zip_code, partners, orders,
                   cart, is_public, published, products, searched, order, result,
                   calls>>

\* lines 249-252 and the return of calculate_shipping, lines 158-169
ReturnRates ==
    /\ pc = "rating"
    /\ idx > Len(SearchCarriers)
    /\ result' = Respond(SortByPrice(shipping_options))
    /\ pc' = "done"
    /\ UNCHANGED <<zip_in, product_id, quantity, zip_code, partners, orders, cart,
                   is_public, published, products, searched, rated,
                   shipping_options, order, idx, calls>>

\* the response has been sent: the request's arguments and locals are gone,
\* the database keeps what the request wrote
EndRequest ==
    /\ pc = "done"
    /\ pc' = "idle"
    /\ zip_in' = <<>>
    /\ product_id' = PyNone
    /\ quantity' = 1
    /\ zip_code' = <<>>
    /\ searched' = FALSE
    /\ rated' = <<>>
    /\ shipping_options' = <<>>
    /\ order' = 0
    /\ idx' = 0
    /\ result' = Pending
    /\ UNCHANGED <<partners, orders, cart, is_public, published, products, calls>>

-----------------------------------------------------------------------------
(* get_variant_info *)

\* a lookup that returns the last colour link instead of the first
GetColorAttributeValue_Last(product) ==
    LET links == product.product_template_attribute_value_ids
        colors == {i \in 1..Len(links) : links[i].attribute_id.display_type = "color"}
    IN  IF colors = {} THEN NoStr
        ELSE links[Max(colors)].product_attribute_value_id.name

\* _get_color_attribute_value: the name of the first link whose attribute is
\* shown as a colour, None when there is none
GetColorAttributeValue(product) ==
    LET links == product.product_template_attribute_value_ids
        colors == {i \in 1..Len(links) : links[i].attribute_id.display_type = "color"}
    IN  IF colors = {} THEN NoStr
        ELSE links[Min(colors)].product_attribute_value_id.name

\* get_variant_info: what the call returns; int() raising is not caught, the
\* framework answers with an error instead of a result
VariantInfo(pid) ==
    IF ~Truthy(pid)
    THEN [error |-> "product_id es requerido"]
    ELSE IF IntRaises(pid)
    THEN [exception |-> "ValueError"]
    ELSE IF IntOf(pid) \notin DOMAIN products
    THEN [error |-> "Producto no encontrado"]
    ELSE [color_name |-> OrEmpty(GetColorAttributeValue(products[IntOf(pid)])),
          sku |-> OrEmpty(products[IntOf(pid)].default_code),
          product_id |-> IntOf(pid)]

GetVariantInfo ==
    /\ pc = "idle"
    /\ calls < MaxCalls
    /\ \E pid \in ProductIdInputs :
        /\ product_id' = pid
        /\ result' = VariantInfo(pid)
    /\ pc' = "done"
    /\ calls' = calls + 1
    /\ UNCHANGED <<zip_in, quantity, zip_code, partners, orders, cart, is_public,
                   published, products, searched, rated, shipping_options, order,
                   idx>>

\* the attribute-value links a variant can have
DisplayTypes == {"color", "radio"}
ValueNames == {"Rojo", "Azul"}
Links ==
    {[attribute_id |-> [display_type |-> d],
      product_attribute_value_id |-> [name |-> Str(n)]] :
        d \in DisplayTypes, n \in ValueNames}

RECURSIVE LinkLists(_)
LinkLists(n) ==
    IF n = 0 THEN {<<>>}
    ELSE LET S == LinkLists(n - 1)
         IN  S \cup {Append(l, x) : l \in {t \in S : Len(t) = n - 1}, x \in Links}

-----------------------------------------------------------------------------

Init ==
    /\ pc = "idle"
    /\ zip_in = <<>>
    /\ product_id = PyNone
    /\ quantity = 1
    /\ zip_code = <<>>
    /\ partners = InitPartners
    /\ cart \in {0, CartId}
    /\ orders = InitOrders(cart)
    /\ is_public \in BOOLEAN
    /\ published \in {{3}, {1, 3}, {1, 2, 3}}
    /\ products = InitProducts
    /\ searched = FALSE
    /\ rated = <<>>
    /\ shipping_options = <<>>
    /\ order = 0
    /\ idx = 0
    /\ result = Pending
    /\ calls = 0

Next ==
    \/ CalculateShipping
    \/ GetShippingRates
    \/ RateCarrier
    \/ ReturnRates
    \/ EndRequest

Spec == Init /\ [][Next]_vars

\* the variant lookup, over every variant of up to MaxLinks attribute values
InitVariant ==
    /\ pc = "idle"
    /\ zip_in = <<>>
    /\ product_id = PyNone
    /\ quantity = 1
    /\ zip_code = <<>>
    /\ partners = InitPartners
    /\ cart = 0
    /\ orders = InitOrders(cart)
    /\ is_public = TRUE
    /\ published = {}
    /\ \E code \in {NoStr, Str("SKU-1")}, links \in LinkLists(MaxLinks) :
          products = (1 :> [default_code |-> code, lst_price |-> 100,
                            product_template_attribute_value_ids |-> links])
    /\ searched = FALSE
    /\ rated = <<>>
    /\ shipping_options = <<>>
    /\ order = 0
    /\ idx = 0
    /\ result = Pending
    /\ calls = 0

NextVariant ==
    \/ GetVariantInfo
    \/ EndRequest

SpecVariant == InitVariant /\ [][NextVariant]_vars

-----------------------------------------------------------------------------
(* Properties *)

\* what the claims say of the arguments, stated without the model's operators
\* for validation and order selection
BadZip(z) == z = <<>> \/ Len(strip(z)) < 4
NamesExistingProduct(pid) ==
    /\ pid.t \in {"int", "str"}
    /\ pid.n \in DOMAIN products
Succeeded(r) == ~r.out.raised /\ "success" \in DOMAIN r.out.rate /\ r.out.rate.success
ResultOptions(r) == IF "shipping_options" \in DOMAIN r THEN r.shipping_options ELSE <<>>
Occurrences(x, s) == Cardinality({i \in 1..Len(s) : s[i] = x})

\* C1: when a call of calculate_shipping has returned, the partner rows and
\* the sale order rows are the rows that existed before the first call.
C1_TempRowsDeleted ==
    pc = "done" =>
        /\ DOMAIN partners = DOMAIN InitPartners
        /\ DOMAIN orders = DOMAIN InitOrders(cart)

\* C2: when a call of calculate_shipping has returned, every record that
\* existed before it has the field values it had: the cart keeps its
\* partner_shipping_id and the user's partner is unchanged.
C2_ExistingRecordsUnchanged ==
    pc = "done" =>
        /\ \A p \in DOMAIN InitPartners : partners[p] = InitPartners[p]
        /\ \A o \in DOMAIN InitOrders(cart) : orders[o] = InitOrders(cart)[o]

\* C3: when an order was available for rating, every published carrier has
\* been rated once, in order, whatever the carriers before it did, and the
\* returned list has exactly one entry for each carrier whose rate_shipment
\* returned success true and none for any other carrier.
C3_PerCarrierResilience ==
    (pc = "done" /\ order # 0) =>
        LET opts == ResultOptions(result)
        IN  /\ Len(rated) = Len(SearchCarriers)
            /\ \A i \in 1..Len(rated) :
                /\ rated[i].carrier = SearchCarriers[i]
                /\ Cardinality({j \in 1..Len(opts) :
                                   opts[j].carrier_id = rated[i].carrier})
                     = IF Succeeded(rated[i]) THEN 1 ELSE 0
            /\ \A j \in 1..Len(opts) :
                \E i \in 1..Len(rated) : rated[i].carrier = opts[j].carrier_id

C3_Witness ==
    /\ pc = "done"
    /\ order # 0
    /\ Len(rated) = 2
    /\ rated[1].out.raised
    /\ Succeeded(rated[2])
    /\ result.success
    /\ Len(result.shipping_options) = 1
    /\ result.shipping_options[1].carrier_id = rated[2].carrier

\* C4: every shipping_options list returned, rated or base prices, is in
\* non-decreasing order of price and is a permutation of the collected entries.
C4_PriceOrdering ==
    (pc = "done" /\ "shipping_options" \in DOMAIN result) =>
        LET opts == result.shipping_options
        IN  /\ \A i \in 1..Len(opts), j \in 1..Len(opts) :
                i < j => opts[i].price <= opts[j].price
            /\ Len(opts) = Len(shipping_options)
            /\ \A i \in 1..Len(opts) :
                Occurrences(opts[i], opts) = Occurrences(opts[i], shipping_options)

C4_Witness ==
    /\ pc = "done"
    /\ order # 0
    /\ "shipping_options" \in DOMAIN result
    /\ Len(shipping_options) = 2
    /\ shipping_options[1].price > shipping_options[2].price
    /\ result.shipping_options[1] = shipping_options[2]

\* C5: for an existing variant get_variant_info returns the value name of the
\* first link whose attribute has display_type color, '' when there is none;
\* the variant's default_code, '' when unset; the variant's id; and
\* color_name and sku are strings, never None.
C5_VariantLookup ==
    (pc = "done" /\ NamesExistingProduct(product_id)) =>
        LET product == products[product_id.n]
            links == product.product_template_attribute_value_ids
            IsColor(i) == links[i].attribute_id.display_type = "color"
        IN  /\ DOMAIN result = {"color_name", "sku", "product_id"}
            /\ \/ /\ \A i \in 1..Len(links) : ~IsColor(i)
                  /\ result.color_name = Str("")
               \/ \E i \in 1..Len(links) :
                  /\ IsColor(i)
                  /\ \A j \in 1..(i - 1) : ~IsColor(j)
                  /\ result.color_name = links[i].product_attribute_value_id.name
            /\ result.sku = IF product.default_code.isstr
                            THEN product.default_code ELSE Str("")
            /\ result.product_id = product_id.n
            /\ result.color_name.isstr
            /\ result.sku.isstr

C5_Witness ==
    /\ pc = "done"
    /\ NamesExistingProduct(product_id)
    /\ LET links == products[product_id.n].product_template_attribute_value_ids
       IN  /\ Len(links) = 3
           /\ links[1].attribute_id.display_type = "radio"
           /\ links[2].attribute_id.display_type = "color"
           /\ links[3].attribute_id.display_type = "color"
           /\ links[2].product_attribute_value_id.name = Str("Rojo")
           /\ links[3].product_attribute_value_id.name = Str("Azul")
    /\ ~products[product_id.n].default_code.isstr
    /\ result.color_name = Str("Rojo")
    /\ result.sku = Str("")

\* C6: a call whose zip_code is empty or shorter than 4 characters once
\* stripped returns the validation failure at once, without the carrier
\* search, without rating and without creating or changing any partner or
\* order; a call that passes reports the stripped, upper-cased input as
\* zip_code, and the temporary partner it creates or finds for a public
\* visitor carries that zip.
C6_Step ==
    /\ (pc = "idle" /\ pc' # "idle" /\ BadZip(zip_in')) =>
          /\ result' = [success |-> FALSE, error_message |-> ValidationError]
          /\ pc' = "done"
          /\ ~searched'
          /\ rated' = <<>>
          /\ partners' = partners
          /\ orders' = orders
    /\ (pc = "done" /\ BadZip(zip_in)) =>
          /\ partners' = partners
          /\ orders' = orders
    /\ (pc' = "done" /\ ~BadZip(zip_in')) =>
          /\ "zip_code" \in DOMAIN result'
          /\ result'.zip_code = upper(strip(zip_in'))
    /\ \A p \in DOMAIN partners' \ DOMAIN partners :
          /\ ~BadZip(zip_in)
          /\ partners'[p].zip = upper(strip(zip_in))
    /\ is_public =>
          \A i \in 1..Len(rated') : rated'[i].zip = upper(strip(zip_in'))

C6_ValidationFirst == [][C6_Step]_vars

C6_Witness ==
    /\ pc = "done"
    /\ Len(zip_in) >= 4
    /\ BadZip(zip_in)
    /\ zip_in # strip(zip_in)
    /\ result = [success |-> FALSE, error_message |-> ValidationError]

\* C7: a call that passes validation returns a result: success true with the
\* list when the list of options is not empty, success false with the 'no
\* shipping methods' message when it is empty, and success false with the
\* generic message, and nothing else, when obtaining the rates raised.
C7_ResultShape ==
    (pc = "done" /\ ~BadZip(zip_in)) =>
        LET raising == /\ SearchCarriers # <<>>
                       /\ cart = 0
                       /\ product_id.t = "str"
                       /\ product_id.n < 0
            n == IF SearchCarriers = <<>> THEN 0
                 ELSE IF order = 0 THEN Len(SearchCarriers)
                 ELSE Cardinality({i \in 1..Len(rated) : Succeeded(rated[i])})
        IN  IF raising
            THEN result = [success |-> FALSE, zip_code |-> upper(strip(zip_in)),
                           error_message |-> GenericError]
            ELSE IF n = 0
            THEN result = [success |-> FALSE, zip_code |-> upper(strip(zip_in)),
                           error_message |-> NoMethodsError]
            ELSE /\ DOMAIN result = {"success", "zip_code", "shipping_options"}
                 /\ result.success
                 /\ Len(result.shipping_options) = n

C7_Witness ==
    /\ pc = "done"
    /\ ~BadZip(zip_in)
    /\ product_id = NotANumber
    /\ result.success = FALSE
    /\ result.error_message = GenericError

\* C8: every rate_shipment call is made on an order whose shipping partner
\* has the normalized requested zip, for public and logged-in users alike.
C8_RatedAtRequestedZip ==
    \A i \in 1..Len(rated) : rated[i].zip = upper(strip(zip_in))

\* C9: with a cart, the cart is rated and no order is created; without one, if
\* product_id names an existing product, one order with one line (the
\* product, the quantity) is created and rated; otherwise no order is
\* created, nothing is rated and the result has one entry per published
\* carrier with its fixed price and is_estimate true.
C9_Rated ==
    /\ \A i \in 1..Len(rated) : rated[i].order = order /\ order \in DOMAIN orders
    /\ (pc = "done" /\ order # 0) => Len(rated) = Len(SearchCarriers)

C9_CartStep ==
    cart # 0 =>
        /\ DOMAIN orders' = DOMAIN orders
        /\ order' \in {0, cart}

C9_ProductLine(o) ==
    /\ Len(orders'[o].lines) = 1
    /\ orders'[o].lines[1].product_id = product_id.n
    /\ orders'[o].lines[1].product_uom_qty = quantity

C9_ProductStep ==
    (cart = 0 /\ NamesExistingProduct(product_id)) =>
        /\ Cardinality(DOMAIN orders' \ DOMAIN orders) = 1
        /\ \A o \in DOMAIN orders' \ DOMAIN orders : C9_ProductLine(o) /\ order' = o
        /\ pc' = "rating"

C9_BaseResult ==
    /\ DOMAIN orders' = DOMAIN orders
    /\ order' = 0
    /\ pc' = "done"
    /\ LET opts == ResultOptions(result')
       IN  /\ Len(opts) = Len(SearchCarriers)
           /\ \A i \in 1..Len(SearchCarriers) :
                \E j \in 1..Len(opts) :
                    /\ opts[j].carrier_id = SearchCarriers[i]
                    /\ opts[j].price = Carriers[SearchCarriers[i]].fixed_price
                    /\ opts[j].is_estimate

C9_OtherStep ==
    (cart = 0 /\ ~NamesExistingProduct(product_id)) => C9_BaseResult

C9_OrderSelection ==
    /\ [][pc = "rates" => (C9_CartStep /\ C9_ProductStep /\ C9_OtherStep)]_vars
    /\ []C9_Rated

\* C9 as amended: the above when at least one carrier is published for the
\* website; a product_id that int() rejects gives the generic failure, with no
\* order and no rating; with no published carrier nothing is created or
\* rated and the call fails with the 'no shipping methods' message.
C9_Unconvertible == product_id.t = "str" /\ product_id.n < 0

C9_OtherStepAmended ==
    (cart = 0 /\ ~NamesExistingProduct(product_id)) =>
        IF C9_Unconvertible
        THEN /\ DOMAIN orders' = DOMAIN orders
             /\ order' = 0
             /\ pc' = "done"
             /\ result' = [success |-> FALSE, zip_code |-> zip_code,
                           error_message |-> GenericError]
        ELSE C9_BaseResult

C9_NoCarrierStep ==
    /\ partners' = partners
    /\ orders' = orders
    /\ order' = 0
    /\ pc' = "done"
    /\ result' = [success |-> FALSE, zip_code |-> zip_code,
                  error_message |-> NoMethodsError]

C9_OrderSelectionAmended ==
    /\ [][pc = "rates" =>
            IF SearchCarriers = <<>>
            THEN C9_NoCarrierStep
            ELSE /\ C9_CartStep
                 /\ cart # 0 => (order' = cart /\ pc' = "rating")
                 /\ C9_ProductStep
                 /\ C9_OtherStepAmended]_vars
    /\ []C9_Rated

C9_Witness ==
    /\ pc = "done"
    /\ cart = 0
    /\ product_id = PyStr(1)
    /\ quantity = 2
    /\ order \in DOMAIN orders
    /\ orders[order].lines[1].product_uom_qty = 2
    /\ Len(rated) = 2
    /\ result.success

====
